---- MODULE Spec2Model ----
(***************************************************************************)
(* PM2.5 ingest and query API (src/app.py): the two tables                 *)
(* estimasi_harian and estimasi_metadata, the ingest handler with its two  *)
(* upserts inside one psycopg2 connection scope, and the three read        *)
(* handlers latest, history and stats.                                     *)
(*                                                                         *)
(* A request occupies a slot of req.  The ingest handler is split at its   *)
(* round trips to the database (connect, first statement, second           *)
(* statement, exit of the with block), which are the points where another  *)
(* request can interleave; a read handler is one step.                     *)
(***************************************************************************)
EXTENDS Integers, Sequences, FiniteSets, TLC

VARIABLES estimasi_harian, estimasi_metadata, req

vars == <<estimasi_harian, estimasi_metadata, req>>

(***************************************************************************)
(* Bounds of the model.                                                    *)
(***************************************************************************)
NumDates == 2
NumReq == 2
MaxLimit == 2

\* history(limit: int = 30)
DefaultLimit == 30

(***************************************************************************)
(* Python values.  None is the empty tuple and a present value v is <<v>>, *)
(* so that a nullable column compares with both.                           *)
(***************************************************************************)
None == <<>>
Some(v) == <<v>>

Range(s) == {s[i] : i \in 1..Len(s)}
Min(a, b) == IF a < b THEN a ELSE b

\* dict.get(k): the value, or None when the key is missing
Get(d, k) == IF k \in DOMAIN d THEN Some(d[k]) ELSE None

\* kolom_map, in dict order: <<human-readable name, column>>
kolom_map ==
    << <<"Beji", "beji">>, <<"Bojongsari", "bojongsari">>, <<"Cilodong", "cilodong">>,
       <<"Cimanggis", "cimanggis">>, <<"Cinere", "cinere">>, <<"Cipayung", "cipayung">>,
       <<"Limo", "limo">>, <<"Pancoran Mas", "pancoran_mas">>,
       <<"Sawangan", "sawangan">>, <<"Sukmajaya", "sukmajaya">>, <<"Tapos", "tapos">> >>

\* cols = ['tanggal', 'kota', 'rata_rata_kota'] + list(kolom_map.values())
cols == <<"tanggal", "kota", "rata_rata_kota">> \o [i \in 1..Len(kolom_map) |-> kolom_map[i][2]]

\* values = [tanggal, kota, rata_rata_kota] + [estimasi.get(k) for k in kolom_map.keys()]
values(payload) ==
    <<payload.tanggal, payload.kota, payload.rata_rata_kota>>
        \o [i \in 1..Len(kolom_map) |-> Get(payload.estimasi, kolom_map[i][1])]

\* update_set: c = EXCLUDED.c for c in cols[1:]
update_set == {cols[i] : i \in 2..Len(cols)}

\* variant: the conflict target is wider than the date
ConflictOnDateAndCity == {"tanggal", "kota"}

\* ON CONFLICT (tanggal)
conflict_target == {"tanggal"}

\* INSERT INTO estimasi_harian (cols) VALUES (values): column i gets value i
InsertRow(vals) == [c \in Range(cols) |-> vals[CHOOSE i \in 1..Len(cols) : cols[i] = c]]

\* the rows of a table that conflict with new on the columns of key
Conflicting(table, key, new) == {old \in table : \A c \in key : old[c] = new[c]}

\* ON CONFLICT (tanggal, kecamatan) DO UPDATE SET fitur, tanggal_fitur
meta_key == {"tanggal", "kecamatan"}
meta_update_set == {"fitur", "tanggal_fitur"}

\* variant: DO UPDATE SET c = COALESCE(EXCLUDED.c, c) for the nullable columns, a
\* merge with the old row
UpsertCoalesce(table, key, upd, new) ==
    LET hit == Conflicting(table, key, new)
    IN  [del |-> hit,
         add |-> IF hit = {} THEN {new}
                 ELSE {[c \in DOMAIN old |->
                          IF c \in upd /\ (c \in {cols[i] : i \in 1..3} \cup meta_update_set
                                         \/ new[c] # None)
                          THEN new[c] ELSE old[c]] :
                         old \in hit}]

\* INSERT ... ON CONFLICT (key) DO UPDATE SET c = EXCLUDED.c for c in upd, as the
\* rows it removes from the table and the rows it puts there
Upsert(table, key, upd, new) ==
    LET hit == Conflicting(table, key, new)
    IN  [del |-> hit,
         add |-> IF hit = {} THEN {new}
                 ELSE {[c \in DOMAIN old |-> IF c \in upd THEN new[c] ELSE old[c]] :
                         old \in hit}]

\* a table once the writes w of a transaction are committed
Apply(table, w) == (table \ w.del) \cup w.add

\* upsert_sql with values
UpsertHarian(table, payload) ==
    Upsert(table, conflict_target, update_set, InsertRow(values(payload)))

(***************************************************************************)
(* json.dumps of a Dict[str, str], given as the sequence of its items.     *)
(***************************************************************************)
RECURSIVE json_items(_)
json_items(items) ==
    IF items = <<>> THEN ""
    ELSE "\"" \o items[1][1] \o "\": \"" \o items[1][2] \o "\""
         \o (IF Len(items) > 1 THEN ", " ELSE "") \o json_items(Tail(items))

json_dumps(items) == "{" \o json_items(items) \o "}"

\* variant: only the areas of kolom_map get a metadata row
MetaRowsKnownOnly(payload) ==
    IF payload.tanggal_fitur = None THEN {}
    ELSE LET tf == payload.tanggal_fitur[1]
         IN  {[tanggal |-> payload.tanggal, kecamatan |-> kec,
               fitur |-> json_dumps(<<>>), tanggal_fitur |-> json_dumps(tf[kec])] :
                 kec \in DOMAIN tf \cap {kolom_map[i][1] : i \in 1..Len(kolom_map)}}

\* meta_rows: one (tanggal, kec, json.dumps({}), json.dumps(meta)) per item of
\* tanggal_fitur, none when tanggal_fitur is None or empty
meta_rows(payload) ==
    IF payload.tanggal_fitur = None \/ payload.tanggal_fitur = Some(<<>>) THEN {}
    ELSE LET tf == payload.tanggal_fitur[1]
         IN  {[tanggal |-> payload.tanggal, kecamatan |-> kec,
               fitur |-> json_dumps(<<>>), tanggal_fitur |-> json_dumps(tf[kec])] :
                 kec \in DOMAIN tf}

\* variant: the metadata of the date is replaced by the batch
ReplaceMetadata(table, rows) ==
    [del |-> {old \in table : \E row \in rows : old.tanggal = row.tanggal},
     add |-> rows]

\* execute_values: the rows of the batch, whose keys are distinct (they come from
\* the keys of one dict), upserted on (tanggal, kecamatan) by one statement
UpsertMetadata(table, rows) ==
    [del |-> UNION {Upsert(table, meta_key, meta_update_set, row).del : row \in rows},
     add |-> UNION {Upsert(table, meta_key, meta_update_set, row).add : row \in rows}]


(***************************************************************************)
(* Requests.  A request body is what the client sends; PayloadAggregat is  *)
(* the validated model the handler receives.                               *)
(***************************************************************************)
\* the bodies with dates D, optional city K, estimates E, averages V and optional
\* metadata F
Bodies(D, K, E, V, F) ==
    [tanggal : D, kota : K, estimasi : E, rata_rata_kota : V, tanggal_fitur : F]

\* the dicts with keys among A and values in V
Dicts(A, V) == UNION {[S -> V] : S \in SUBSET A}

\* variant: no validator
AcceptAll(v) == TRUE

\* @validator("estimasi") not_empty: raises ValueError("estimasi kosong") on an
\* empty dict
not_empty(v) == DOMAIN v # {}

\* kota: str = "Depok"
PayloadAggregat(body) ==
    [body EXCEPT !.kota = IF body.kota = None THEN "Depok" ELSE body.kota[1]]

\* what psycopg2 raises: str(e)
StorageErrors == {"OperationalError"}

\* the error of PostgreSQL for LIMIT with a negative count
NegativeLimit == "LIMIT must not be negative"

NoWrites == [del |-> {}, add |-> {}]
NoTx == [harian |-> NoWrites, metadata |-> NoWrites]

\* no request in the slot.  payload is the validated body while the handler runs,
\* and stays with the response of an ingest that returned; tx is the open
\* transaction of the connection; replaced (the rows the upsert found for the date), failed_at (the
\* step that raised) and overtaken (another request committed the same date while
\* this one was running) record what happened to the request
Idle ==
    [pc |-> "idle", kind |-> "none", payload |-> None, limit |-> None, conn |-> "none",
     tx |-> NoTx, response |-> None, replaced |-> {}, failed_at |-> "none",
     overtaken |-> FALSE]

\* variant: the detail is a fixed text
HTTPExceptionGeneric(status_code, detail) ==
    Some([outcome |-> "HTTPException", status_code |-> status_code,
          detail |-> "Internal Server Error"])

\* what a handler ends with: a returned value, HTTPException(status_code, detail), or
\* an exception that leaves the handler uncaught; "rejected" is the validation error
\* raised while the payload is built, before the handler is called
Return(value) == Some([outcome |-> "return", value |-> value])
HTTPException(status_code, detail) ==
    Some([outcome |-> "HTTPException", status_code |-> status_code, detail |-> detail])
Uncaught(e) == Some([outcome |-> "uncaught", error |-> e])
Rejected(msg) == Some([outcome |-> "rejected", error |-> msg])

\* the status the framework answers with: 200 for a returned value, the status_code
\* of an HTTPException, 422 for a body that fails validation, 500 for any other
\* exception
Status(response) ==
    CASE response[1].outcome = "return" -> 200
      [] response[1].outcome = "HTTPException" -> response[1].status_code
      [] response[1].outcome = "rejected" -> 422
      [] response[1].outcome = "uncaught" -> 500

\* psycopg2's connection is not closed when its with block exits (only the
\* transaction ends), and no handler calls close(): the connection is closed when
\* the interpreter collects the object, which may be at the end of the request
\* ("closed") or later ("open")
AfterScope == {"open", "closed"}

Slots == DOMAIN req

\* variant: a statement never waits for another transaction
NeverLocked(r, table, key, new) == FALSE

\* the rows another request's open transaction holds locked on the columns of key
LockedBy(r, table, key, new) ==
    \E o \in Slots \ {r} : Conflicting(req[o].tx[table].add, key, new) # {}

Init(S) ==
    /\ estimasi_harian = {}
    /\ estimasi_metadata = {}
    /\ req = [r \in S |-> Idle]

(***************************************************************************)
(* POST /api/pm25/ingest                                                   *)
(***************************************************************************)
\* the body fails validation: the handler is not called
ingest_rejected(r, body) ==
    /\ req[r].pc = "idle"
    /\ ~not_empty(body.estimasi)
    /\ req' = [req EXCEPT ![r] = [Idle EXCEPT !.pc = "done", !.kind = "ingest",
                                    !.response = Rejected("estimasi kosong")]]
    /\ UNCHANGED <<estimasi_harian, estimasi_metadata>>

\* the handler is called and get_conn() returns a connection
ingest_connect(r, body) ==
    /\ req[r].pc = "idle"
    /\ not_empty(body.estimasi)
    /\ req' = [req EXCEPT ![r] = [Idle EXCEPT !.pc = "connected", !.kind = "ingest",
                                    !.payload = Some(PayloadAggregat(body)),
                                    !.conn = "open"]]
    /\ UNCHANGED <<estimasi_harian, estimasi_metadata>>

\* the handler is called and get_conn() raises
ingest_connect_fails(r, body, e) ==
    /\ req[r].pc = "idle"
    /\ not_empty(body.estimasi)
    /\ req' = [req EXCEPT ![r] = [Idle EXCEPT !.pc = "done", !.kind = "ingest",
                                    !.response = HTTPException(500, e),
                                    !.failed_at = "connect"]]
    /\ UNCHANGED <<estimasi_harian, estimasi_metadata>>

\* cur.execute(upsert_sql, values): waits while another transaction holds the row
ingest_upsert(r) ==
    /\ req[r].pc = "connected"
    /\ LET payload == req[r].payload[1]
           new == InsertRow(values(payload))
       IN  /\ ~LockedBy(r, "harian", conflict_target, new)
           /\ req' = [req EXCEPT ![r].pc = "upserted",
                                 ![r].tx.harian = UpsertHarian(estimasi_harian, payload),
                                 ![r].replaced =
                                     Conflicting(estimasi_harian, {"tanggal"}, new)]
    /\ UNCHANGED <<estimasi_harian, estimasi_metadata>>

\* if meta_rows: execute_values(cur, ..., meta_rows)
ingest_metadata(r) ==
    /\ req[r].pc = "upserted"
    /\ LET rows == meta_rows(req[r].payload[1])
       IN  /\ rows # {}
           /\ \A row \in rows : ~LockedBy(r, "metadata", meta_key, row)
           /\ req' = [req EXCEPT ![r].pc = "batched",
                                 ![r].tx.metadata = UpsertMetadata(estimasi_metadata, rows)]
    /\ UNCHANGED <<estimasi_harian, estimasi_metadata>>

\* the requests that run on the date of r's payload while r commits
SameDate(r) ==
    {o \in Slots \ {r} : /\ req[o].pc \in {"connected", "upserted", "batched"}
                          /\ req[o].payload[1].tanggal = req[r].payload[1].tanggal}

\* the with block is left without an exception: the transaction is committed and
\* the handler returns
ingest_commit(r) ==
    /\ \/ req[r].pc = "batched"
       \/ req[r].pc = "upserted" /\ meta_rows(req[r].payload[1]) = {}
    /\ estimasi_harian' = Apply(estimasi_harian, req[r].tx.harian)
    /\ estimasi_metadata' = Apply(estimasi_metadata, req[r].tx.metadata)
    /\ \E c \in AfterScope :
         req' = [o \in Slots |->
                  IF o = r
                  THEN [req[r] EXCEPT
                          !.pc = "done", !.tx = NoTx, !.conn = c,
                          !.response =
                              Return([status |-> "ok", upserted |-> "estimasi_harian",
                                      meta_rows |-> Cardinality(meta_rows(req[r].payload[1]))])]
                  ELSE IF o \in SameDate(r) THEN [req[o] EXCEPT !.overtaken = TRUE]
                  ELSE req[o]]

\* variant: the statements that ran stay committed (autocommit)
RollbackKeepsWrites(table, w) == Apply(table, w)

\* a table after the transaction of a failed request is rolled back
Rollback(table, w) == table

\* a statement or the commit raises: the with block rolls the transaction back and
\* the except clause raises HTTPException(500, str(e))
ingest_fails(r, e) ==
    /\ req[r].pc \in {"connected", "upserted", "batched"}
    /\ estimasi_harian' = Rollback(estimasi_harian, req[r].tx.harian)
    /\ estimasi_metadata' = Rollback(estimasi_metadata, req[r].tx.metadata)
    /\ \E c \in AfterScope :
         req' = [req EXCEPT ![r].pc = "done", ![r].payload = None, ![r].tx = NoTx,
                            ![r].conn = c, ![r].replaced = {},
                            ![r].response = HTTPException(500, e),
                            ![r].failed_at =
                                CASE req[r].pc = "connected" -> "upsert"
                                  [] req[r].pc = "upserted"
                                       /\ meta_rows(req[r].payload[1]) # {} -> "metadata"
                                  [] OTHER -> "commit"]

\* the response is sent and the slot is free for the next request
Reply(r) ==
    /\ req[r].pc = "done"
    /\ req' = [req EXCEPT ![r] = Idle]
    /\ UNCHANGED <<estimasi_harian, estimasi_metadata>>

(***************************************************************************)
(* The read handlers.  Each is one step: connect, one SELECT, the result   *)
(* shaped, the with block left.  None of them has a try/except, so a       *)
(* storage error leaves the handler as the exception psycopg2 raised.      *)
(***************************************************************************)
\* ORDER BY tanggal DESC
RECURSIVE OrderByTanggalDesc(_)
OrderByTanggalDesc(table) ==
    IF table = {} THEN <<>>
    ELSE LET top == CHOOSE r \in table : \A q \in table : q.tanggal <= r.tanggal
         IN  <<top>> \o OrderByTanggalDesc(table \ {top})

\* variant: no LIMIT
NoLimit(rows, n) == rows

\* LIMIT n, for n >= 0
Limit(rows, n) == SubSeq(rows, 1, Min(n, Len(rows)))

\* the columns history selects
history_cols ==
    <<"tanggal", "kota", "rata_rata_kota", "beji", "bojongsari", "cilodong", "cimanggis",
      "cinere", "cipayung", "limo", "pancoran_mas", "sawangan", "sukmajaya", "tapos">>

\* dict(zip(cols, row)) for the selected columns
RowDict(row, columns) == [c \in Range(columns) |-> row[c]]

RECURSIVE Sum(_)
Sum(table) ==
    IF table = {} THEN 0
    ELSE LET r == CHOOSE x \in table : TRUE IN r.rata_rata_kota + Sum(table \ {r})

\* COUNT(*), AVG, MIN, MAX of rata_rata_kota; the average is <<sum, count>>
Aggregates(table) ==
    LET v == {r.rata_rata_kota : r \in table}
    IN  [n_hari |-> Cardinality(table),
         pm25_avg |-> IF table = {} THEN None ELSE Some(<<Sum(table), Cardinality(table)>>),
         pm25_min |-> IF table = {} THEN None ELSE Some(CHOOSE x \in v : \A y \in v : x <= y),
         pm25_max |-> IF table = {} THEN None ELSE Some(CHOOSE x \in v : \A y \in v : x >= y)]

\* where a read can fail: get_conn() ("connect") or cur.execute ("execute")
Faults == {None} \cup {<<at, e>> : at \in {"connect", "execute"}, e \in StorageErrors}

\* a read handler ends: with value, or with the exception of fault
Read(r, kind, limit, fault, value) ==
    /\ req[r].pc = "idle"
    /\ \E c \in AfterScope :
         req' = [req EXCEPT ![r] =
                   [Idle EXCEPT !.pc = "done", !.kind = kind, !.limit = limit,
                     !.conn = IF fault # None /\ fault[1] = "connect" THEN "none" ELSE c,
                     !.response = IF fault = None THEN Return(value) ELSE Uncaught(fault[2]),
                     !.failed_at = IF fault = None THEN "none" ELSE fault[1]]]
    /\ UNCHANGED <<estimasi_harian, estimasi_metadata>>

\* GET /api/pm25/latest
latest(r, fault) ==
    LET rows == Limit(OrderByTanggalDesc(estimasi_harian), 1)
    IN  Read(r, "latest", None, fault,
             [data |-> IF rows = <<>> THEN None ELSE Some(RowDict(rows[1], cols))])

\* GET /api/pm25/history?limit=
history(r, param, fault) ==
    LET limit == IF param = None THEN DefaultLimit ELSE param[1]
        rows == Limit(OrderByTanggalDesc(estimasi_harian), limit)
    IN  Read(r, "history", Some(limit),
             IF fault = None /\ limit < 0 THEN <<"execute", NegativeLimit>> ELSE fault,
             [data |-> [i \in 1..Len(rows) |-> RowDict(rows[i], history_cols)]])

\* GET /api/pm25/stats
stats(r, fault) == Read(r, "stats", None, fault, [data |-> Aggregates(estimasi_harian)])

(***************************************************************************)
(* Specifications.                                                         *)
(***************************************************************************)
Dates == 1..NumDates

\* the limits of the history requests: absent, or -1..MaxLimit
Limits == {None} \cup {Some(n) : n \in -1..MaxLimit}

\* one metadata dict per area: feature name -> date label
Metas == {<<<<"aod", "2024-01-01">>>>, <<<<"aod", "2024-01-02">>, <<"no2", "2024-01-01">>>>}

\* Spec: every handler, one request at a time
ApiBodies ==
    Bodies(Dates, {None}, {<<>>, "Beji" :> 5}, {10, 20},
           {None, Some("Beji" :> <<<<"aod", "2024-01-01">>>>)})

ApiNext ==
    \/ \E r \in Slots, body \in ApiBodies : ingest_rejected(r, body)
    \/ \E r \in Slots, body \in ApiBodies : ingest_connect(r, body)
    \/ \E r \in Slots, body \in ApiBodies, e \in StorageErrors : ingest_connect_fails(r, body, e)
    \/ \E r \in Slots : ingest_upsert(r)
    \/ \E r \in Slots : ingest_metadata(r)
    \/ \E r \in Slots : ingest_commit(r)
    \/ \E r \in Slots, e \in StorageErrors : ingest_fails(r, e)
    \/ \E r \in Slots, fault \in Faults : latest(r, fault)
    \/ \E r \in Slots, param \in Limits, fault \in Faults : history(r, param, fault)
    \/ \E r \in Slots, fault \in Faults : stats(r, fault)
    \/ \E r \in Slots : Reply(r)

Spec == Init({1}) /\ [][ApiNext]_vars

\* SpecRow: ingests that differ in every field of the main row, one at a time
RowBodies ==
    Bodies(Dates, {None, Some("Bogor")},
           {<<>>, "Beji" :> 5, "Tapos" :> 7, ("Beji" :> 5) @@ ("Tapos" :> 7)}, {10, 20}, {None})

RowNext ==
    \/ \E r \in Slots, body \in RowBodies : ingest_rejected(r, body)
    \/ \E r \in Slots, body \in RowBodies : ingest_connect(r, body)
    \/ \E r \in Slots, body \in RowBodies, e \in StorageErrors : ingest_connect_fails(r, body, e)
    \/ \E r \in Slots : ingest_upsert(r)
    \/ \E r \in Slots : ingest_commit(r)
    \/ \E r \in Slots, e \in StorageErrors : ingest_fails(r, e)
    \/ \E r \in Slots : Reply(r)

SpecRow == Init({1}) /\ [][RowNext]_vars

\* SpecMeta: ingests that differ in their metadata and name an area outside
\* kolom_map, one at a time
MetaBodies ==
    Bodies(Dates, {None}, {<<>>, "Beji" :> 5, ("Beji" :> 5) @@ ("Margonda" :> 6)}, {10},
           {None} \cup {Some(d) : d \in Dicts({"Beji", "Margonda"}, Metas)})

MetaNext ==
    \/ \E r \in Slots, body \in MetaBodies : ingest_rejected(r, body)
    \/ \E r \in Slots, body \in MetaBodies : ingest_connect(r, body)
    \/ \E r \in Slots, body \in MetaBodies, e \in StorageErrors : ingest_connect_fails(r, body, e)
    \/ \E r \in Slots : ingest_upsert(r)
    \/ \E r \in Slots : ingest_metadata(r)
    \/ \E r \in Slots : ingest_commit(r)
    \/ \E r \in Slots, e \in StorageErrors : ingest_fails(r, e)
    \/ \E r \in Slots : Reply(r)

SpecMeta == Init({1}) /\ [][MetaNext]_vars

\* SpecRace: NumReq ingests at a time, of two bodies for one date that differ in the
\* city, in the average and in the area they name
RaceBodies ==
    Bodies({1}, {None}, {"Beji" :> 5}, {10}, {None})
        \cup Bodies({1}, {Some("Bogor")}, {"Tapos" :> 7}, {20}, {None})

RaceNext ==
    \/ \E r \in Slots, body \in RaceBodies : ingest_connect(r, body)
    \/ \E r \in Slots, body \in RaceBodies, e \in StorageErrors : ingest_connect_fails(r, body, e)
    \/ \E r \in Slots : ingest_upsert(r)
    \/ \E r \in Slots : ingest_commit(r)
    \/ \E r \in Slots, e \in StorageErrors : ingest_fails(r, e)
    \/ \E r \in Slots : Reply(r)

SpecRace == Init(1..NumReq) /\ [][RaceNext]_vars

(***************************************************************************)
(* What the claims are stated with.                                        *)
(***************************************************************************)
\* the rows of estimasi_harian for date d
RowsOf(table, d) == {x \in table : x.tanggal = d}

\* the main row a payload stands for: its date, city and average, and for each of
\* the eleven areas the estimate of that area, or null
StoredAs(p) ==
    [c \in Range(cols) |->
        CASE c = "tanggal" -> p.tanggal
          [] c = "kota" -> p.kota
          [] c = "rata_rata_kota" -> p.rata_rata_kota
          [] OTHER -> LET i == CHOOSE j \in 1..Len(kolom_map) : kolom_map[j][2] = c
                      IN  IF kolom_map[i][1] \in DOMAIN p.estimasi
                          THEN Some(p.estimasi[kolom_map[i][1]]) ELSE None]

\* the keys of tanggal_fitur, none when it is absent
FiturKeys(p) == IF p.tanggal_fitur = None THEN {} ELSE DOMAIN p.tanggal_fitur[1]

Running == {"connected", "upserted", "batched"}

\* slot r holds an ingest that returned status ok
IngestOk(r) ==
    /\ req[r].pc = "done"
    /\ req[r].kind = "ingest"
    /\ req[r].response[1].outcome = "return"

\* this step is the commit of r's ingest
Commits(r) ==
    /\ req[r].pc \in Running
    /\ req'[r].pc = "done"
    /\ req'[r].response[1].outcome = "return"

\* this step ends r's ingest with an error
Fails(r) ==
    /\ req[r].pc \in Running
    /\ req'[r].pc = "done"
    /\ req'[r].response[1].outcome # "return"

OneRowPerDate == \A a, b \in estimasi_harian : a.tanggal = b.tanggal => a = b

\* C1: after any sequence of ingests the table holds one row per ingested date, never
\* two for one date: a commit leaves exactly one row for its date and adds no other
\* date, no other step changes the table, and committing a payload whose row is
\* already stored leaves the table as it was.
C1_OneRowPerDate ==
    /\ []OneRowPerDate
    /\ [][\A r \in Slots :
            IF Commits(r)
            THEN LET p == req[r].payload[1]
                 IN  /\ Cardinality(RowsOf(estimasi_harian', p.tanggal)) = 1
                     /\ {x.tanggal : x \in estimasi_harian'}
                          = {x.tanggal : x \in estimasi_harian} \cup {p.tanggal}
                     /\ StoredAs(p) \in estimasi_harian =>
                          /\ estimasi_harian' = estimasi_harian
                          /\ StoredAs(p) \in estimasi_harian'
            ELSE (\A o \in Slots : ~Commits(o)) => estimasi_harian' = estimasi_harian]_vars

\* C1 witness: the same payload was ingested a second time, with two dates stored
C1_SamePayloadTwice ==
    \E r \in Slots :
        /\ IngestOk(r)
        /\ req[r].replaced = {StoredAs(req[r].payload[1])}
        /\ StoredAs(req[r].payload[1]) \in estimasi_harian
        /\ Cardinality(estimasi_harian) = 2

\* C2: after an ingest of date D returned, D's row holds for each of the eleven areas
\* the estimate of the payload, or null when the payload omits the area, and the
\* city and average of the payload, whatever row was there before.
C2_FullReplacement ==
    \A r \in Slots :
        IngestOk(r) =>
            LET p == req[r].payload[1]
            IN  /\ RowsOf(estimasi_harian, p.tanggal) # {}
                /\ \A x \in RowsOf(estimasi_harian, p.tanggal) :
                     /\ x.kota = p.kota
                     /\ x.rata_rata_kota = p.rata_rata_kota
                     /\ Len(kolom_map) = 11
                     /\ \A i \in 1..Len(kolom_map) :
                          x[kolom_map[i][2]] =
                              IF kolom_map[i][1] \in DOMAIN p.estimasi
                              THEN Some(p.estimasi[kolom_map[i][1]]) ELSE None

\* C2 witness: a row with Beji set was replaced by a payload that omits Beji, names
\* Tapos, and differs in city and average
C2_AreaDropped ==
    \E r \in Slots :
        /\ IngestOk(r)
        /\ \E old \in req[r].replaced :
             LET p == req[r].payload[1]
             IN  /\ old.beji # None
                 /\ "Beji" \notin DOMAIN p.estimasi
                 /\ "Tapos" \in DOMAIN p.estimasi
                 /\ old.kota # p.kota
                 /\ old.rata_rata_kota # p.rata_rata_kota
                 /\ \E x \in estimasi_harian : x.tanggal = old.tanggal /\ x.beji = None

\* C3: an ingest returns status ok only in the step that commits its main row and
\* all its metadata rows; a step in which a statement or the commit fails answers
\* 500 and leaves both tables as they were, and no statement shows in a table before
\* the commit.
C3_AllOrNothing ==
    [][\A r \in Slots :
         /\ Commits(r) =>
              LET p == req[r].payload[1]
              IN  /\ StoredAs(p) \in estimasi_harian'
                  /\ \A kec \in FiturKeys(p) :
                       \E m \in estimasi_metadata' :
                           /\ m.tanggal = p.tanggal
                           /\ m.kecamatan = kec
                           /\ m.tanggal_fitur = json_dumps(p.tanggal_fitur[1][kec])
         /\ Fails(r) =>
              /\ Status(req'[r].response) = 500
              /\ estimasi_harian' = estimasi_harian
              /\ estimasi_metadata' = estimasi_metadata
         /\ req'[r].pc \in Running =>
              /\ estimasi_harian' = estimasi_harian
              /\ estimasi_metadata' = estimasi_metadata]_vars

\* C3 witness: the metadata statement failed after the main upsert had run, and no
\* row is stored
C3_SecondStatementFailed ==
    \E r \in Slots :
        /\ req[r].pc = "done"
        /\ req[r].failed_at = "metadata"
        /\ Status(req[r].response) = 500
        /\ estimasi_harian = {}
        /\ estimasi_metadata = {}

\* C4: when a request is completed, it has no connection open.
C4_ConnectionsReleased ==
    \A r \in Slots : req[r].pc = "done" => req[r].conn # "open"

\* C5: with ingests of one date running at the same time the table never holds two
\* rows for the date, and after each commit the row of the date is the row of the
\* committing payload, all of it.
C5_LastUpsertWins ==
    /\ [](\A a \in estimasi_harian : RowsOf(estimasi_harian, a.tanggal) = {a})
    /\ [][\A r \in Slots :
            Commits(r) =>
                RowsOf(estimasi_harian', req[r].payload[1].tanggal)
                    = {StoredAs(req[r].payload[1])}]_vars

\* C5 witness: two ingests of one date and different payloads both returned, the
\* second having started before the first committed and having replaced its row
C5_BothSucceeded ==
    \E r, o \in Slots :
        /\ r # o
        /\ IngestOk(r) /\ IngestOk(o)
        /\ req[r].overtaken
        /\ req[r].payload[1].tanggal = req[o].payload[1].tanggal
        /\ req[r].payload[1].kota # req[o].payload[1].kota
        /\ req[r].replaced = {StoredAs(req[o].payload[1])}
        /\ estimasi_harian = {StoredAs(req[r].payload[1])}

\* C6 as stated: a storage error in any handler ends in an HTTPException with a 5xx
\* status and the raw error text.
C6_EveryHandlerCatches ==
    \A r \in Slots :
        req[r].pc = "done" /\ req[r].failed_at # "none" =>
            /\ req[r].response[1].outcome = "HTTPException"
            /\ req[r].response[1].status_code \in 500..599
            /\ req[r].response[1].detail \in StorageErrors \cup {NegativeLimit}

\* C6 amended: a storage error is answered with a 5xx status by every handler; ingest
\* catches it and raises HTTPException with the raw error text, while latest, history
\* and stats do not catch it: the exception leaves the handler.
C6_OnlyIngestCatches ==
    \A r \in Slots :
        req[r].pc = "done" /\ req[r].failed_at # "none" =>
            /\ Status(req[r].response) \in 500..599
            /\ IF req[r].kind = "ingest"
               THEN /\ req[r].response[1].outcome = "HTTPException"
                    /\ req[r].response[1].detail \in StorageErrors
               ELSE /\ req[r].response[1].outcome = "uncaught"
                    /\ req[r].response[1].error \in StorageErrors \cup {NegativeLimit}

\* C6 witness: the statement of stats failed and the exception left the handler
C6_ReadFailed ==
    \E r \in Slots :
        /\ req[r].pc = "done"
        /\ req[r].kind = "stats"
        /\ req[r].failed_at = "execute"
        /\ req[r].response[1].outcome = "uncaught"

\* C7: a payload with an empty estimasi never reaches the handler; the request is
\* answered with a 4xx status, with no connection, no statement and both tables
\* as they were.
C7_EmptyRejected ==
    /\ [](\A r \in Slots :
            req[r].payload # None => DOMAIN req[r].payload[1].estimasi # {})
    /\ [][\A r \in Slots :
            req[r].pc = "idle" /\ req'[r].pc = "done"
              /\ req'[r].response[1].outcome = "rejected" =>
                /\ Status(req'[r].response) \in 400..499
                /\ req'[r].conn = "none"
                /\ req'[r].tx = NoTx
                /\ estimasi_harian' = estimasi_harian
                /\ estimasi_metadata' = estimasi_metadata]_vars

\* C7 witness: a request was rejected while a row is stored
C7_Rejected ==
    \E r \in Slots :
        /\ req[r].pc = "done"
        /\ req[r].response[1].outcome = "rejected"
        /\ req[r].conn = "none"
        /\ estimasi_harian # {}

\* the data of a history response for limit: min(limit, n) rows of the table, the
\* greatest dates, strictly descending
HistoryOf(data, limit) ==
    /\ Len(data) <= limit
    /\ Len(data) = Min(limit, Cardinality(estimasi_harian))
    /\ \A i \in 1..Len(data) :
         \E x \in estimasi_harian : data[i] = [c \in Range(history_cols) |-> x[c]]
    /\ \A i, j \in 1..Len(data) : i < j => data[i].tanggal > data[j].tanggal
    /\ \A x \in estimasi_harian :
         \/ \E i \in 1..Len(data) : data[i].tanggal = x.tanggal
         \/ \A i \in 1..Len(data) : x.tanggal < data[i].tanggal

\* slot r holds a history request that met no failure of the storage
HistoryDone(r) ==
    /\ req[r].pc = "done"
    /\ req[r].kind = "history"
    /\ ~(req[r].response[1].outcome = "uncaught"
           /\ req[r].response[1].error \in StorageErrors)

\* C8 as stated: for every limit, history returns min(limit, n) rows, the greatest
\* dates in descending order, and never an error.
C8_AnyLimit ==
    \A r \in Slots :
        HistoryDone(r) =>
            /\ req[r].response[1].outcome = "return"
            /\ HistoryOf(req[r].response[1].value.data, req[r].limit[1])

\* C8 amended: for every limit >= 0, history returns min(limit, n) rows, the greatest
\* dates in descending order, an empty sequence on an empty table; for a negative
\* limit the statement is refused and the request ends with an error.
C8_NonNegativeLimit ==
    \A r \in Slots :
        HistoryDone(r) =>
            IF req[r].limit[1] >= 0
            THEN /\ req[r].response[1].outcome = "return"
                 /\ HistoryOf(req[r].response[1].value.data, req[r].limit[1])
            ELSE /\ req[r].response[1].outcome = "uncaught"
                 /\ req[r].response[1].error = NegativeLimit

\* C8 witness: history with limit 1 on a table of two rows returned one row
C8_Truncated ==
    \E r \in Slots :
        /\ HistoryDone(r)
        /\ req[r].limit = Some(1)
        /\ Cardinality(estimasi_harian) = 2
        /\ req[r].response[1].outcome = "return"
        /\ Len(req[r].response[1].value.data) = 1

\* C9: after an ingest returned, the main row has the columns of cols only and the
\* estimates of the known areas, a metadata row exists for every key of
\* tanggal_fitur, known or not, and meta_rows is the number of those keys.
C9_UnknownAreas ==
    \A r \in Slots :
        IngestOk(r) =>
            LET p == req[r].payload[1]
            IN  /\ req[r].response[1].value.meta_rows = Cardinality(FiturKeys(p))
                /\ \A kec \in FiturKeys(p) :
                     \E m \in estimasi_metadata : m.tanggal = p.tanggal /\ m.kecamatan = kec
                /\ RowsOf(estimasi_harian, p.tanggal) # {}
                /\ \A x \in RowsOf(estimasi_harian, p.tanggal) :
                     /\ DOMAIN x = Range(cols)
                     /\ \A i \in 1..Len(kolom_map) :
                          x[kolom_map[i][2]] = Get(p.estimasi, kolom_map[i][1])

\* C9 witness: an ingest naming Margonda, which is no column, in estimasi and in
\* tanggal_fitur returned; Beji is stored and Margonda has a metadata row
C9_UnknownAreaStored ==
    \E r \in Slots :
        /\ IngestOk(r)
        /\ LET p == req[r].payload[1]
           IN  /\ {"Beji", "Margonda"} \subseteq DOMAIN p.estimasi
               /\ FiturKeys(p) = {"Beji", "Margonda"}
               /\ req[r].response[1].value.meta_rows = 2
               /\ \E m \in estimasi_metadata :
                    m.tanggal = p.tanggal /\ m.kecamatan = "Margonda"
               /\ \E x \in estimasi_harian : x.tanggal = p.tanggal /\ x.beji = Some(5)

\* C10: a metadata row changes or goes only in the commit of an ingest of its date
\* that names its area in tanggal_fitur, and then a row of its key remains: no key
\* ever leaves estimasi_metadata.
C10_MetadataKept ==
    [][\A m \in estimasi_metadata :
         /\ \/ m \in estimasi_metadata'
            \/ \E r \in Slots :
                 /\ Commits(r)
                 /\ m.tanggal = req[r].payload[1].tanggal
                 /\ m.kecamatan \in FiturKeys(req[r].payload[1])
         /\ \E n \in estimasi_metadata' :
              n.tanggal = m.tanggal /\ n.kecamatan = m.kecamatan]_vars

\* C10 witness: date D was ingested again, without metadata for Beji, its main row
\* overwritten, and the metadata row (D, Beji) is still there
C10_RowOutlivesReingest ==
    \E r \in Slots :
        /\ IngestOk(r)
        /\ req[r].replaced # {}
        /\ "Beji" \notin FiturKeys(req[r].payload[1])
        /\ \E m \in estimasi_metadata :
             m.tanggal = req[r].payload[1].tanggal /\ m.kecamatan = "Beji"

====
